---- MODULE Spec2Model ----
(***************************************************************************)
(* A model of the PEP 249 adapter of src/upsolver: one Connection          *)
(* (connection.py), the Cursors it hands out (cursor.py) and the Query     *)
(* Execution Service the Connection calls.  Every public call is one       *)
(* action; `ret` is what the caller saw from the last call.                *)
(***************************************************************************)
EXTENDS Integers, Sequences, FiniteSets, TLC

VARIABLES
    api,        \* Connection._api: TRUE while it holds the RestQueryApi, FALSE once None
    cursors,    \* per Cursor object: created, _connection, _result, _iterator, _arraysize
    ret,        \* the outcome of the last call, as the caller observes it
    hist        \* per Cursor: the fetch calls since its last successful execute

vars == <<api, cursors, ret, hist>>

----------------------------------------------------------------------------
(* Bounds of the model. *)

MaxRows == 2        \* records in one page of a response of the service
MaxSize == 2        \* largest size / arraysize argument a caller passes

(* The Cursor objects there may be, and the ones a behaviour of Spec       *)
(* creates.                                                                *)
AllCursors == {"c1", "c2"}
CursorIds == {"c1"}

----------------------------------------------------------------------------
(* Python values.  A row is the payload of a record, None, or the record. *)

QR == "upsolver_query_response"
Absent == "<absent>"

PyNone == [ty |-> "None", kind |-> "", message |-> ""]
PyStr(m) == [ty |-> "str", kind |-> "", message |-> m]
PyDict(rec) == [ty |-> "dict", kind |-> rec.kind, message |-> rec.message]

(* The records the service may put in a page: a query response with its    *)
(* message, a query response without one, and a record of another kind.    *)
Records ==
    { [kind |-> QR, message |-> "a"],
      [kind |-> QR, message |-> Absent],
      [kind |-> "log", message |-> "a"] }

SeqsUpTo(S, n) == UNION { [1..k -> S] : k \in 0..n }

(* The responses of the service: no page, one page of up to MaxRows        *)
(* records, or two pages of at most one record each.                       *)
Pages == SeqsUpTo(Records, MaxRows)
ShortPages == SeqsUpTo(Records, 1)
Responses ==
    {<<>>} \cup { <<p>> : p \in Pages }
           \cup { <<p, q>> : p \in ShortPages, q \in ShortPages }

(* dict.get("message"): the value, or None when the key is missing. *)
GetMessage(rec) == IF rec.message = Absent THEN PyNone ELSE PyStr(rec.message)

(* The body of the inner loop of Connection.query. *)
ClassifyRaw(rec) == PyDict(rec)
Classify(rec) ==
    IF rec.kind = QR THEN GetMessage(rec) ELSE PyDict(rec)

RECURSIVE ClassifyPage(_)
ClassifyPage(page) ==
    IF page = <<>> THEN <<>>
    ELSE <<Classify(Head(page))>> \o ClassifyPage(Tail(page))

(* The two nested loops of Connection.query over the pages and records. *)
RECURSIVE QueryRows(_)
QueryRows(pages) ==
    IF pages = <<>> THEN <<>>
    ELSE ClassifyPage(Head(pages)) \o QueryRows(Tail(pages))

----------------------------------------------------------------------------
(* Cursor objects. *)

NoResult == [isNone |-> TRUE, rows |-> <<>>]
NoIterator == [isNone |-> TRUE, pos |-> 0]

(* Cursor.__init__, with the default arraysize of CursorFetchMixin. *)
DefaultArraysize == 1
NewCursorWithIterator ==
    [created |-> TRUE, connection |-> TRUE,
     result |-> NoResult, iterator |-> [isNone |-> FALSE, pos |-> 0],
     arraysize |-> DefaultArraysize]
NewCursor ==
    [created |-> TRUE, connection |-> TRUE,
     result |-> NoResult, iterator |-> NoIterator,
     arraysize |-> DefaultArraysize]

Uncreated ==
    [created |-> FALSE, connection |-> FALSE,
     result |-> NoResult, iterator |-> NoIterator,
     arraysize |-> DefaultArraysize]

(* hist[c].kind: "none" before any execute, "failed" while every execute  *)
(* so far has failed, "fresh" right after a successful execute, then the   *)
(* kind of fetch call made since (with its size and what each call         *)
(* returned), or "mixed" once the calls differ or exceed HistCap.          *)
(* hist[c].got: the rows every fetch call since the last successful        *)
(* execute has handed to the caller, in the order of the calls;            *)
(* hist[c].done: one of these calls has reported the end of the result (a  *)
(* fetchone on the exhausted iterator, a fetchall returning [], a          *)
(* fetchmany asked for a row or more returning []).                        *)
NoHist ==
    [kind |-> "none", size |-> <<>>, outs |-> <<>>, got |-> <<>>, done |-> FALSE]
FailedHist ==
    [kind |-> "failed", size |-> <<>>, outs |-> <<>>, got |-> <<>>, done |-> FALSE]
FreshHist ==
    [kind |-> "fresh", size |-> <<>>, outs |-> <<>>, got |-> <<>>, done |-> FALSE]
HistCap == MaxRows + 1

(* What the caller sees of a call: the operation, the Cursor, "ok" or the  *)
(* exception raised, the value returned and the argument passed.  With it  *)
(* go the calls the Connection made to RestQueryApi.execute during the     *)
(* call (svc: what each one did) and, for an execute, the position the     *)
(* iterator had before (-1 without iterator).                              *)
Ret(op, c, status, rows, size) ==
    [op |-> op, cur |-> c, status |-> status, rows |-> rows, size |-> size,
     svc |-> <<>>, before |-> -1, pages |-> <<>>]

Init ==
    /\ api = TRUE
    /\ cursors = [c \in AllCursors |-> Uncreated]
    /\ ret = Ret("connect", "", "ok", <<>>, <<>>)
    /\ hist = [c \in AllCursors |-> NoHist]

----------------------------------------------------------------------------
(* Cursor.fetchone: next(self._iterator), None on StopIteration.  The      *)
(* iterator is iter(self._result): a position in that same list.           *)

ExhaustedEarly(s) == s.iterator.pos + 1 >= Len(s.result.rows)
Exhausted(s) == s.iterator.pos >= Len(s.result.rows)

FetchoneRaises(s) == s.iterator.isNone

FetchoneRow(s) ==
    IF Exhausted(s) THEN PyNone ELSE s.result.rows[s.iterator.pos + 1]

FetchoneAdvance(s) ==
    IF Exhausted(s) THEN s ELSE [s EXCEPT !.iterator.pos = @ + 1]

(* The loop shared by fetchmany and fetchall: call fetchone, stop on a     *)
(* None, else append.  n counts the iterations left; fetchall's            *)
(* `while True` is a negative n, which never reaches 0.                    *)
RECURSIVE FetchLoop(_, _, _)
FetchLoop(s, n, acc) ==
    IF n = 0 THEN [cur |-> s, rows |-> acc]
    ELSE LET row == FetchoneRow(s)
             s2 == FetchoneAdvance(s)
         IN  IF row = PyNone THEN [cur |-> s2, rows |-> acc]
             ELSE FetchLoop(s2, n - 1, Append(acc, row))

(* range(size or self.arraysize): a size of None or 0 falls back to        *)
(* arraysize, a negative count gives no iteration.  size is <<>> for None. *)
ManyCount(s, size) ==
    LET n == IF size = <<>> \/ size[1] = 0 THEN s.arraysize ELSE size[1]
    IN  IF n < 0 THEN 0 ELSE n

(* The rows property Cursor.rowcount reads. *)
RowcountUnknown(s) == -1
Rowcount(s) == IF s.result.isNone THEN -1 ELSE Len(s.result.rows)

(* The history of fetch calls of one kind since the last execute. *)
TrackFailure(h) == IF h.kind = "none" THEN FailedHist ELSE h

Track(h, kind, size, out) ==
    IF h.kind \in {"none", "failed"} THEN h
    ELSE IF /\ h.kind \in {"fresh", kind}
            /\ (h.kind = "fresh" \/ h.size = size)
            /\ Len(h.outs) < HistCap
         THEN [h EXCEPT !.kind = kind, !.size = size, !.outs = Append(@, out)]
         ELSE [h EXCEPT !.kind = "mixed", !.size = <<>>, !.outs = <<>>]

(* The rows a fetch call handed to the caller, and whether it reported the *)
(* end of the result.  A row that is None, returned by fetchone, counts as *)
(* a row handed over.                                                      *)
Deliver(h, handed, ended) ==
    [h EXCEPT !.got = @ \o handed, !.done = @ \/ ended]

----------------------------------------------------------------------------
(* Connection *)

(* Connection.cursor, from the Cursor objects in ids. *)
ConnCursorFrom(ids) ==
    /\ IF api = FALSE
       THEN /\ ret' = Ret("cursor", "", "InterfaceError", <<>>, <<>>)
            /\ UNCHANGED cursors
       ELSE \E c \in ids :
               /\ ~cursors[c].created
               /\ cursors' = [cursors EXCEPT ![c] = NewCursor]
               /\ ret' = Ret("cursor", c, "ok", <<>>, <<>>)
    /\ UNCHANGED <<api, hist>>

ConnCursor == ConnCursorFrom(CursorIds)

(* Connection.close *)
ConnCloseInvalidates ==
    /\ api' = FALSE
    /\ ret' = Ret("conn.close", "", "ok", <<>>, <<>>)
    /\ cursors' = [c \in DOMAIN cursors |->
                      [cursors[c] EXCEPT !.result = NoResult,
                                         !.iterator = NoIterator]]
    /\ UNCHANGED hist
ConnClose ==
    /\ api' = FALSE
    /\ ret' = Ret("conn.close", "", "ok", <<>>, <<>>)
    /\ UNCHANGED <<cursors, hist>>

(* Connection.commit: it logs and returns. *)
CommitStatus == "ok"

ConnCommit ==
    /\ ret' = Ret("commit", "", CommitStatus, <<>>, <<>>)
    /\ UNCHANGED <<api, cursors, hist>>

(* Connection.rollback: raise NotSupportedError. *)
RollbackStatus == "NotSupportedError"

ConnRollback ==
    /\ ret' = Ret("rollback", "", RollbackStatus, <<>>, <<>>)
    /\ UNCHANGED <<api, cursors, hist>>

(* TransactionContextMixin.__exit__, the end of `with connection:`.  exc   *)
(* is the exception in flight, <<>> when the block ended normally.  It     *)
(* calls commit on a normal exit and rollback on an exceptional one, and   *)
(* lets the exception in flight go on; an exception raised by the call     *)
(* made inside __exit__ leaves the scope in place of the one in flight.    *)
TransactionExit(exc, commit, rollback) ==
    IF exc = <<>>
    THEN [calls |-> <<"commit">>, status |-> commit]
    ELSE [calls |-> <<"rollback">>,
          status |-> IF rollback = "ok" THEN exc[1] ELSE rollback]

(* `with connection:` leaving its block, on the Connection of              *)
(* src/upsolver, with its commit and its rollback.                         *)
ConnExit(exc) ==
    LET r == TransactionExit(exc, CommitStatus, RollbackStatus)
    IN  /\ ret' = Ret("exit", "", r.status, r.calls, exc)
        /\ UNCHANGED <<api, cursors, hist>>

(* Connection.rollback of src/pep249/connection.py: it logs, prints and    *)
(* returns.  That Connection holds a token and a url, and nothing here.    *)
Pep249Rollback ==
    /\ ret' = Ret("pep249.rollback", "", "ok", <<>>, <<>>)
    /\ UNCHANGED <<api, cursors, hist>>

(* The guard of Connection.query. *)
QueryNeverRaises == FALSE
QueryRaises == api = FALSE

(* The guard of Cursor._query: `not self._connection`. *)
CursorQueryRaises(s) == ~s.connection

(* Connection.query and Cursor._query call the service outside any try:    *)
(* what it raises is what execute raises.                                  *)
Wrapped(err) == "OperationalError"
Propagate(err) == err

(* Connection.query called by the application.  The pages the service    *)
(* yielded are kept beside the rows returned.                              *)
ConnQuery(svc) ==
    /\ IF QueryRaises
       THEN ret' = Ret("query", "", "InterfaceError", <<>>, <<>>)
       ELSE IF svc.raises
       THEN ret' = [Ret("query", "", Propagate(svc.error), <<>>, <<>>)
                       EXCEPT !.svc = <<svc.error>>]
       ELSE ret' = [Ret("query", "", "ok", QueryRows(svc.pages), <<>>)
                       EXCEPT !.svc = <<"pages">>, !.pages = svc.pages]
    /\ UNCHANGED <<api, cursors, hist>>

(* Cursor.execute storing its result: self._result and self._iterator of   *)
(* this Cursor object.                                                     *)
StoreResultShared(cs, c, result) ==
    [d \in DOMAIN cs |->
        IF cs[d].created
        THEN [cs[d] EXCEPT !.result = [isNone |-> FALSE, rows |-> result],
                           !.iterator = [isNone |-> FALSE, pos |-> 0]]
        ELSE cs[d]]
StoreResultKeepIterator(cs, c, result) ==
    [cs EXCEPT ![c].result = [isNone |-> FALSE, rows |-> result],
               ![c].iterator = [isNone |-> FALSE, pos |-> @.pos]]
StoreResult(cs, c, result) ==
    [cs EXCEPT ![c].result = [isNone |-> FALSE, rows |-> result],
               ![c].iterator = [isNone |-> FALSE, pos |-> 0]]

(* Cursor.execute when self._query raises: the two assignments after the  *)
(* call are not reached.                                                   *)
FailedExecuteClears(cs, c) ==
    [cs EXCEPT ![c].result = NoResult, ![c].iterator = NoIterator]
FailedExecute(cs, c) == cs

(* The iterator position a caller of execute leaves behind. *)
PosBefore(s) == IF s.iterator.isNone THEN -1 ELSE s.iterator.pos

----------------------------------------------------------------------------
(* Cursor *)

(* Cursor.execute.  svc is what RestQueryApi.execute does with the query:  *)
(* it raises (timeout, connectivity, malformed response) or yields pages.  *)
CurExecute(c, params, svc) ==
    /\ cursors[c].created
    /\ IF CursorQueryRaises(cursors[c]) \/ QueryRaises
       THEN /\ ret' = Ret("execute", c, "InterfaceError", <<>>, params)
            /\ hist' = [hist EXCEPT ![c] = TrackFailure(@)]
            /\ cursors' = FailedExecute(cursors, c)
       ELSE IF svc.raises
       THEN /\ ret' = [Ret("execute", c, Propagate(svc.error), <<>>, params)
                          EXCEPT !.svc = <<svc.error>>]
            /\ hist' = [hist EXCEPT ![c] = TrackFailure(@)]
            /\ cursors' = FailedExecute(cursors, c)
       ELSE LET result == QueryRows(svc.pages)
            IN  /\ cursors' = StoreResult(cursors, c, result)
                /\ ret' = [Ret("execute", c, "ok", result, params)
                              EXCEPT !.svc = <<"pages">>,
                                     !.before = PosBefore(cursors[c])]
                /\ hist' = [hist EXCEPT ![c] = FreshHist]
    /\ UNCHANGED api

(* Cursor.fetchone *)
CurFetchone(c) ==
    /\ cursors[c].created
    /\ IF FetchoneRaises(cursors[c])
       THEN /\ ret' = Ret("fetchone", c, "InterfaceError", <<>>, <<>>)
            /\ UNCHANGED <<cursors, hist>>
       ELSE LET row == FetchoneRow(cursors[c])
            IN  /\ cursors' = [cursors EXCEPT ![c] = FetchoneAdvance(@)]
                /\ ret' = Ret("fetchone", c, "ok", <<row>>, <<>>)
                /\ hist' = [hist EXCEPT ![c] =
                       Deliver(Track(@, "fetchone", <<>>, <<row>>),
                               IF Exhausted(cursors[c]) THEN <<>> ELSE <<row>>,
                               Exhausted(cursors[c]))]
    /\ UNCHANGED api

(* Cursor.fetchmany *)
CurFetchmany(c, size) ==
    /\ cursors[c].created
    /\ IF cursors[c].iterator.isNone
       THEN /\ ret' = Ret("fetchmany", c, "InterfaceError", <<>>, size)
            /\ UNCHANGED <<cursors, hist>>
       ELSE LET r == FetchLoop(cursors[c], ManyCount(cursors[c], size), <<>>)
            IN  /\ cursors' = [cursors EXCEPT ![c] = r.cur]
                /\ ret' = Ret("fetchmany", c, "ok", r.rows, size)
                /\ hist' = [hist EXCEPT ![c] =
                       Deliver(Track(@, "fetchmany", size, r.rows), r.rows,
                               /\ ManyCount(cursors[c], size) >= 1
                               /\ r.rows = <<>>)]
    /\ UNCHANGED api

(* Cursor.fetchall *)
CurFetchall(c) ==
    /\ cursors[c].created
    /\ IF cursors[c].iterator.isNone
       THEN /\ ret' = Ret("fetchall", c, "InterfaceError", <<>>, <<>>)
            /\ UNCHANGED <<cursors, hist>>
       ELSE LET r == FetchLoop(cursors[c], -1, <<>>)
            IN  /\ cursors' = [cursors EXCEPT ![c] = r.cur]
                /\ ret' = Ret("fetchall", c, "ok", r.rows, <<>>)
                /\ hist' = [hist EXCEPT ![c] =
                       Deliver(Track(@, "fetchall", <<>>, r.rows), r.rows,
                               r.rows = <<>>)]
    /\ UNCHANGED api

(* Cursor.executemany: raise NotSupportedError. *)
CurExecutemany(c) ==
    /\ cursors[c].created
    /\ ret' = Ret("executemany", c, "NotSupportedError", <<>>, <<>>)
    /\ UNCHANGED <<api, cursors, hist>>

(* Cursor.callproc: pass, so it returns None. *)
CurCallproc(c) ==
    /\ cursors[c].created
    /\ ret' = Ret("callproc", c, "ok", <<PyNone>>, <<>>)
    /\ UNCHANGED <<api, cursors, hist>>

(* Cursor.nextset: raise NotSupportedError. *)
CurNextset(c) ==
    /\ cursors[c].created
    /\ ret' = Ret("nextset", c, "NotSupportedError", <<>>, <<>>)
    /\ UNCHANGED <<api, cursors, hist>>

(* CursorSetSizeMixin.setinputsizes, which Cursor inherits: it logs and    *)
(* returns None.                                                           *)
CurSetinputsizes(c) ==
    /\ cursors[c].created
    /\ ret' = Ret("setinputsizes", c, "ok", <<PyNone>>, <<>>)
    /\ UNCHANGED <<api, cursors, hist>>

(* CursorSetSizeMixin.setoutputsize, likewise. *)
CurSetoutputsize(c) ==
    /\ cursors[c].created
    /\ ret' = Ret("setoutputsize", c, "ok", <<PyNone>>, <<>>)
    /\ UNCHANGED <<api, cursors, hist>>

(* Cursor.description: a plain method whose body is `pass`; called, it    *)
(* returns None whatever the result set is.                                *)
Description(s) == PyNone

CurDescription(c) ==
    /\ cursors[c].created
    /\ ret' = Ret("description", c, "ok", <<Description(cursors[c])>>, <<>>)
    /\ UNCHANGED <<api, cursors, hist>>

(* Cursor.rowcount *)
CurRowcount(c) ==
    /\ cursors[c].created
    /\ ret' = Ret("rowcount", c, "ok", <<Rowcount(cursors[c])>>, <<>>)
    /\ UNCHANGED <<api, cursors, hist>>

(* The arraysize setter of CursorFetchMixin: setattr, no check. *)
SetArraysize(s, value) == [s EXCEPT !.arraysize = value]

CurSetArraysize(c, value) ==
    /\ cursors[c].created
    /\ cursors' = [cursors EXCEPT ![c] = SetArraysize(@, value)]
    /\ ret' = Ret("arraysize", c, "ok", <<>>, <<>>)
    /\ UNCHANGED <<api, hist>>

(* TransactionFreeContextMixin.close, which Cursor.close ends with. *)
MixinClose(s) == s

(* Cursor.close *)
CursorClose(s) == MixinClose([s EXCEPT !.connection = FALSE])

CurClose(c) ==
    /\ cursors[c].created
    /\ cursors' = [cursors EXCEPT ![c] = CursorClose(@)]
    /\ ret' = Ret("close", c, "ok", <<>>, <<>>)
    /\ UNCHANGED <<api, hist>>

----------------------------------------------------------------------------
(* What the callers and the service may pass. *)

Sizes == {<<>>} \cup { <<n>> : n \in 1..MaxSize }
ArraysizeValues == {-1, 0, MaxSize}
Params == {<<>>, <<1>>}
ServiceErrors == {"TimeoutError", "ConnectionError"}
ServiceOutcomes ==
    { [raises |-> TRUE, error |-> e, pages |-> <<>>] : e \in ServiceErrors }
        \cup { [raises |-> FALSE, error |-> "", pages |-> p] : p \in Responses }

Next ==
    \/ ConnCursor
    \/ ConnClose
    \/ ConnCommit
    \/ ConnRollback
    \/ \E c \in CursorIds, svc \in ServiceOutcomes :
            CurExecute(c, <<>>, svc)
    \/ \E c \in CursorIds : CurFetchone(c)
    \/ \E c \in CursorIds, size \in Sizes : CurFetchmany(c, size)
    \/ \E c \in CursorIds : CurFetchall(c)
    \/ \E c \in CursorIds, v \in ArraysizeValues : CurSetArraysize(c, v)
    \/ \E c \in CursorIds : CurClose(c)

Spec == Init /\ [][Next]_vars

(* The whole surface of the Connection and of one Cursor, with the calls   *)
(* that are declared and not implemented, over short responses.            *)
ShortResponses ==
    {<<>>} \cup { <<p>> : p \in ShortPages }
           \cup { <<p, q>> : p \in ShortPages, q \in ShortPages }
ShortOutcomes ==
    { [raises |-> TRUE, error |-> e, pages |-> <<>>] : e \in ServiceErrors }
        \cup { [raises |-> FALSE, error |-> "", pages |-> p] :
                  p \in ShortResponses }
BlockExceptions == {<<>>, <<"ValueError">>}

ApiNext ==
    \/ ConnCursor
    \/ ConnClose
    \/ ConnCommit
    \/ ConnRollback
    \/ Pep249Rollback
    \/ \E exc \in BlockExceptions : ConnExit(exc)
    \/ \E c \in CursorIds, p \in Params, svc \in ShortOutcomes :
            CurExecute(c, p, svc)
    \/ \E c \in CursorIds : CurFetchone(c)
    \/ \E c \in CursorIds : CurClose(c)
    \/ \E c \in CursorIds : CurRowcount(c)
    \/ \E c \in CursorIds : CurDescription(c)
    \/ \E c \in CursorIds : CurExecutemany(c)
    \/ \E c \in CursorIds : CurCallproc(c)
    \/ \E c \in CursorIds : CurNextset(c)
    \/ \E c \in CursorIds : CurSetinputsizes(c)
    \/ \E c \in CursorIds : CurSetoutputsize(c)

ApiSpec == Init /\ [][ApiNext]_vars

(* Two cursors of one connection, executing and fetching in any order,     *)
(* over responses of two short pages of records that carry a message.      *)
MessagePages == SeqsUpTo({ r \in Records : r.message # Absent }, 1)
PairOutcomes ==
    { [raises |-> FALSE, error |-> "", pages |-> <<p, q>>] :
          p \in MessagePages, q \in MessagePages }

PairNext ==
    \/ ConnCursorFrom(AllCursors)
    \/ \E c \in AllCursors, svc \in PairOutcomes : CurExecute(c, <<>>, svc)
    \/ \E c \in AllCursors : CurFetchone(c)
    \/ \E c \in AllCursors : CurFetchmany(c, <<>>)
    \/ \E c \in AllCursors : CurFetchall(c)

PairSpec == Init /\ [][PairNext]_vars

(* Connection.query on its own, over responses of up to two pages of up to *)
(* MaxRows records, or three short pages.                                  *)
QueryResponses ==
    {<<>>} \cup { <<p>> : p \in Pages }
           \cup { <<p, q>> : p \in Pages, q \in Pages }
           \cup { <<p, q, r>> : p \in ShortPages, q \in ShortPages,
                                r \in ShortPages }
QueryOutcomes ==
    { [raises |-> TRUE, error |-> e, pages |-> <<>>] : e \in ServiceErrors }
        \cup { [raises |-> FALSE, error |-> "", pages |-> p] :
                  p \in QueryResponses }

QueryNext ==
    \/ ConnClose
    \/ \E svc \in QueryOutcomes : ConnQuery(svc)

QuerySpec == Init /\ [][QueryNext]_vars

----------------------------------------------------------------------------
(* Properties *)

RECURSIVE Concat(_)
Concat(seqs) == IF seqs = <<>> THEN <<>> ELSE Head(seqs) \o Concat(Tail(seqs))

Min(a, b) == IF a < b THEN a ELSE b

Live == { c \in AllCursors : cursors[c].created }
Rows(c) == cursors[c].result.rows
FetchOps == {"fetchone", "fetchmany", "fetchall"}

(* C1: the first fetchall after an execute returns exactly the rows the    *)
(* execute returned, in order, and the fetchall after it returns an empty  *)
(* sequence.                                                               *)
C1_FetchallReturnsResult ==
    \A c \in Live :
        hist[c].kind = "fetchall" =>
            /\ hist[c].outs[1] = Rows(c)
            /\ Len(hist[c].outs) >= 2 => hist[c].outs[2] = <<>>

(* C2: when fetchmany(n), n positive, is called after an execute until it  *)
(* first returns an empty batch, the batches concatenate to the result,    *)
(* every batch before the last non-empty one has n rows, and the last      *)
(* non-empty one has len(R) mod n rows, or n.                              *)
C2_FetchmanyBatches ==
    \A c \in Live :
        LET h == hist[c]
            k == Len(h.outs)
        IN  ( /\ h.kind = "fetchmany" /\ h.size # <<>>
              /\ h.outs[k] = <<>>
              /\ \A i \in 1..(k - 1) : h.outs[i] # <<>> )
            => LET n == h.size[1]
               IN  /\ Concat(h.outs) = Rows(c)
                   /\ \A i \in 1..(k - 2) : Len(h.outs[i]) = n
                   /\ k >= 2 =>
                         Len(h.outs[k - 1]) \in {Len(Rows(c)) % n, n}

(* C3: the fetchone calls after an execute return the rows of the result,  *)
(* each once and in order, and None from call len(R)+1 on; and a fetchone  *)
(* on a Cursor that has a result set never raises.                         *)
C3_FetchoneSequence ==
    /\ \A c \in Live :
          hist[c].kind = "fetchone" =>
              \A i \in 1..Len(hist[c].outs) :
                  hist[c].outs[i] =
                      IF i <= Len(Rows(c)) THEN <<Rows(c)[i]>> ELSE <<PyNone>>
    /\ (ret.op = "fetchone" /\ ~cursors[ret.cur].iterator.isNone)
          => ret.status = "ok"

(* A result of at least two rows, one of them None, fetched by             *)
(* len(R)+1 fetchone calls.                                                *)
C3_Witness ==
    \E c \in Live :
        /\ hist[c].kind = "fetchone"
        /\ Len(Rows(c)) >= 2
        /\ \E i \in 1..Len(Rows(c)) : Rows(c)[i] = PyNone
        /\ Len(hist[c].outs) = Len(Rows(c)) + 1
        /\ ret.op = "fetchone" /\ ret.status = "ok"

(* C4: a call of execute, fetchone, fetchmany or fetchall on a Cursor that *)
(* has been closed fails with InterfaceError.                              *)
C4_ClosedCursorFails ==
    \A c \in Live :
        ( /\ ~cursors[c].connection
          /\ ret.cur = c
          /\ ret.op \in FetchOps \cup {"execute"} )
        => ret.status = "InterfaceError"

(* C5: close() on a Connection that is already closed, and close() on a    *)
(* Cursor that is already closed, fail with InterfaceError.                *)
C5_SecondCloseFails ==
    [][ /\ (~api /\ ret'.op = "conn.close")
            => ret'.status = "InterfaceError"
        /\ \A c \in Live :
              (~cursors[c].connection /\ ret'.op = "close" /\ ret'.cur = c)
                  => ret'.status = "InterfaceError" ]_vars

(* C6: on a closed Connection cursor() fails with InterfaceError, and so   *)
(* does the execute of a Cursor created from it before the close; closing  *)
(* the Connection itself leaves its Cursors as they were.                  *)
C6_ClosedConnection ==
    /\ []( (~api /\ ret.op \in {"cursor", "execute"})
              => ret.status = "InterfaceError" )
    /\ [][ ret'.op = "conn.close" => (cursors' = cursors /\ hist' = hist) ]_vars

(* An execute that fails on the closed Connection, from a Cursor that is   *)
(* itself open and still holds the rows of an execute made before.         *)
C6_Witness ==
    /\ ~api
    /\ ret.op = "execute" /\ ret.status = "InterfaceError"
    /\ cursors[ret.cur].connection
    /\ ~cursors[ret.cur].iterator.isNone
    /\ Len(Rows(ret.cur)) > cursors[ret.cur].iterator.pos

(* C7: commit() and rollback() on a closed Connection fail with            *)
(* InterfaceError.                                                         *)
C7_ClosedCommitRollbackFail ==
    (~api /\ ret.op \in {"commit", "rollback"})
        => ret.status = "InterfaceError"

(* C8: fetchone, fetchmany and fetchall on a Cursor on which no execute    *)
(* has succeeded raise InterfaceError.                                     *)
C8_FetchNeedsExecute ==
    \A c \in Live :
        ( /\ hist[c].kind \in {"none", "failed"}
          /\ ret.cur = c
          /\ ret.op \in FetchOps )
        => ret.status = "InterfaceError"

(* A fetch that raises on a Cursor whose executes have all failed. *)
C8_Witness ==
    /\ ret.op \in FetchOps /\ ret.status = "InterfaceError"
    /\ hist[ret.cur].kind = "failed"

(* C9: the arraysize of every Cursor is a positive integer. *)
C9_ArraysizePositive ==
    \A c \in Live : cursors[c].arraysize >= 1

(* C10: with a positive arraysize k, fetchmany() returns min(k, rows       *)
(* remaining) rows, and fetchmany(size) returns min(size, rows remaining)  *)
(* rows, without raising.                                                  *)
C10_FetchmanyCount ==
    [][ \A c \in Live :
          ( /\ ret'.op = "fetchmany" /\ ret'.cur = c
            /\ ~cursors[c].iterator.isNone
            /\ cursors[c].arraysize >= 1 )
          => LET n == IF ret'.size = <<>> THEN cursors[c].arraysize
                      ELSE ret'.size[1]
                 remaining == Len(Rows(c)) - cursors[c].iterator.pos
             IN  /\ ret'.status = "ok"
                 /\ Len(ret'.rows) = Min(n, remaining) ]_vars

(* C11: rowcount is -1 on a Cursor on which no execute has succeeded, and  *)
(* read right after an execute it is the number of rows the execute        *)
(* returned.                                                               *)
C11_Rowcount ==
    /\ []( (ret.op = "rowcount" /\ hist[ret.cur].kind \in {"none", "failed"})
              => ret.rows = <<-1>> )
    /\ [][ ( /\ ret.op = "execute" /\ ret.status = "ok"
             /\ ret'.op = "rowcount" /\ ret'.cur = ret.cur )
           => ret'.rows = <<Len(ret.rows)>> ]_vars

(* rowcount read right after an execute that returned two rows or more. *)
C11_Witness ==
    /\ ret.op = "rowcount"
    /\ hist[ret.cur].kind = "fresh"
    /\ ret.rows[1] >= 2

(* C12: an execute with non-empty parameters fails with NotSupportedError  *)
(* (InterfaceError on a closed Cursor or Connection) and the query is not  *)
(* submitted to the service.                                               *)
C12_ParametersUnsupported ==
    (ret.op = "execute" /\ ret.size # <<>>)
        => /\ \/ ret.status = "NotSupportedError"
              \/ /\ ret.status = "InterfaceError"
                 /\ (~cursors[ret.cur].connection \/ ~api)
           /\ ret.svc = <<>>

(* C13: rollback() fails with NotSupportedError on the Connection of       *)
(* src/upsolver and on the Connection of src/pep249.                       *)
C13_RollbackUnsupported ==
    ret.op \in {"rollback", "pep249.rollback"}
        => ret.status = "NotSupportedError"

UnsupportedOps ==
    {"executemany", "callproc", "nextset", "setinputsizes", "setoutputsize"}

(* C14: executemany, callproc, nextset, setinputsizes and setoutputsize    *)
(* all fail with NotSupportedError, and none of them changes the result    *)
(* set or the fetch position of the Cursor.                                *)
C14_UnsupportedOps ==
    /\ [](ret.op \in UnsupportedOps => ret.status = "NotSupportedError")
    /\ [][ret'.op \in UnsupportedOps => cursors' = cursors]_vars

(* The description the first row of a result set asks for: one 7-tuple    *)
(* per key of the row, in key order.                                       *)
Column(name) == <<name, "STRING", "None", "None", "None", "None", "None">>
ColumnsOf(row) ==
    IF row.message = Absent THEN <<Column("kind")>>
    ELSE <<Column("kind"), Column("message")>>

(* C15: after an execute whose first row is a mapping, description is one  *)
(* 7-tuple (key, STRING, None, None, None, None, None) per key of that     *)
(* row, in key order; after an execute that returned no row, and before    *)
(* any execute, it is None.                                                *)
C15_Description ==
    ret.op = "description" =>
        LET s == cursors[ret.cur]
        IN  IF s.result.isNone \/ s.result.rows = <<>>
            THEN ret.rows = <<PyNone>>
            ELSE s.result.rows[1].ty = "dict" =>
                    /\ ret.rows[1].ty = "list"
                    /\ ret.rows[1].columns = ColumnsOf(s.result.rows[1])

(* C16: leaving `with connection:` normally calls commit; leaving it with  *)
(* an exception calls rollback, and the exception the caller then sees is  *)
(* the one the block raised.                                               *)
C16_ScopeExit ==
    ret.op = "exit" =>
        IF ret.size = <<>>
        THEN ret.rows = <<"commit">> /\ ret.status = "ok"
        ELSE ret.rows = <<"rollback">> /\ ret.status = ret.size[1]

(* C17: a call of execute or of a fetch on one cursor leaves the result    *)
(* set and the position of every other cursor of the connection as they    *)
(* were.                                                                   *)
C17_CursorsIndependent ==
    [][ \A c \in AllCursors :
           (ret'.cur = c /\ ret'.op \in FetchOps \cup {"execute"})
               => \A d \in AllCursors \ {c} : cursors'[d] = cursors[d] ]_vars

(* Both cursors hold a result, the two results differ, one cursor is part  *)
(* way through its rows and the other has just executed.                   *)
C17_Witness ==
    /\ Live = AllCursors
    /\ ~cursors["c1"].result.isNone /\ ~cursors["c2"].result.isNone
    /\ Rows("c1") # Rows("c2")
    /\ Len(Rows("c1")) = 2 /\ cursors["c1"].iterator.pos = 1
    /\ ret.op = "execute" /\ ret.cur = "c2" /\ ret.rows # <<>>

(* C18: an execute that reaches the service calls it once, and when the    *)
(* service fails the caller sees that very failure; an execute on an open  *)
(* cursor of an open connection does reach the service.                    *)
C18_ServiceFailure ==
    ret.op = "execute" =>
        /\ Len(ret.svc) <= 1
        /\ (cursors[ret.cur].connection /\ api) => Len(ret.svc) = 1
        /\ (ret.svc # <<>> /\ ret.svc[1] \in ServiceErrors)
               => ret.status = ret.svc[1]
        /\ ret.status \in ServiceErrors => ret.svc = <<ret.status>>

(* The service timed out under an execute on a cursor that held rows. *)
C18_Witness ==
    /\ ret.op = "execute"
    /\ ret.svc = <<"TimeoutError">>
    /\ ret.status = "TimeoutError"
    /\ ~cursors[ret.cur].result.isNone

(* C19: query returns one row per record, pages in order and records in    *)
(* page order: the message of a query response (None without one), the     *)
(* record itself for any other kind.                                       *)
C19_QueryRows ==
    (ret.op = "query" /\ ret.status = "ok") =>
        LET pages == ret.pages
            Offset(i) == Len(Concat(SubSeq(pages, 1, i - 1)))
        IN  /\ Len(ret.rows) = Len(Concat(pages))
            /\ \A i \in 1..Len(pages) : \A j \in 1..Len(pages[i]) :
                   LET rec == pages[i][j]
                       row == ret.rows[Offset(i) + j]
                   IN  IF rec.kind # QR THEN row = PyDict(rec)
                       ELSE IF rec.message = Absent THEN row = PyNone
                       ELSE row = PyStr(rec.message)

(* Two pages of two records each, a record of another kind ahead of a      *)
(* query response in the first, a response without message in the second.  *)
C19_Witness ==
    /\ ret.op = "query" /\ ret.status = "ok"
    /\ Len(ret.pages) = 2
    /\ Len(ret.pages[1]) = 2 /\ Len(ret.pages[2]) = 2
    /\ ret.pages[1][1].kind # QR /\ ret.pages[1][2].kind = QR
    /\ ret.pages[2][1].message = Absent
    /\ ret.rows[3] = PyNone

(* C20: after a successful execute the cursor holds the rows of this       *)
(* execute and stands before the first of them, whatever it held before:   *)
(* rowcount is their number, the next fetchone returns the first of them   *)
(* and the next fetchmany or fetchall returns rows of theirs from the      *)
(* first on.                                                               *)
C20_ReExecute ==
    /\ []( (ret.op = "execute" /\ ret.status = "ok") =>
              LET s == cursors[ret.cur]
              IN  /\ s.result.rows = ret.rows
                  /\ s.iterator.pos = 0
                  /\ Rowcount(s) = Len(ret.rows) )
    /\ [][ ( /\ ret.op = "execute" /\ ret.status = "ok"
             /\ ret'.op \in FetchOps /\ ret'.cur = ret.cur )
           => /\ ret'.status = "ok"
              /\ IF ret'.op = "fetchone"
                 THEN ret'.rows =
                        <<IF ret.rows = <<>> THEN PyNone ELSE ret.rows[1]>>
                 ELSE /\ Len(ret'.rows) <= Len(ret.rows)
                      /\ ret'.rows = SubSeq(ret.rows, 1, Len(ret'.rows))
       ]_vars

(* An execute on a cursor that had fetched past the first row of an        *)
(* earlier result, returning rows again.                                   *)
C20_Witness ==
    /\ ret.op = "execute" /\ ret.status = "ok"
    /\ ret.before >= 1
    /\ Len(ret.rows) >= 2

(* C21: the rows the fetch calls since the last execute have handed over,  *)
(* put end to end, are the first rows of the result set in order, and a    *)
(* fetch made after one of them reported the end returns None or [].       *)
C21_FetchedIsPrefix ==
    /\ [](\A c \in Live :
            ~cursors[c].result.isNone =>
                /\ Len(hist[c].got) <= Len(Rows(c))
                /\ hist[c].got = SubSeq(Rows(c), 1, Len(hist[c].got)))
    /\ [][ \A c \in Live :
             ( /\ hist[c].done
               /\ ret'.cur = c /\ ret'.op \in FetchOps /\ ret'.status = "ok" )
             => ret'.rows \in {<<>>, <<PyNone>>} ]_vars

(* C22: an execute that fails (closed Cursor, closed Connection, failure   *)
(* of the service) leaves the result set, the position and the rowcount of *)
(* the Cursor as they were, and the fetchone after it returns the row the  *)
(* Cursor stood at before the execute.                                     *)
C22_FailedExecuteKeepsState ==
    [][ \A c \in Live :
          LET s == cursors[c]
          IN  /\ (ret'.op = "execute" /\ ret'.cur = c /\ ret'.status # "ok")
                   => /\ cursors'[c].result = s.result
                      /\ cursors'[c].iterator = s.iterator
                      /\ Rowcount(cursors'[c]) = Rowcount(s)
              /\ ( /\ ret.op = "execute" /\ ret.cur = c /\ ret.status # "ok"
                   /\ hist[c].kind \notin {"none", "failed"}
                   /\ s.iterator.pos = Len(hist[c].got)
                   /\ Len(hist[c].got) < Len(s.result.rows)
                   /\ ret'.op = "fetchone" /\ ret'.cur = c )
                   => /\ ret'.status = "ok"
                      /\ ret'.rows = <<s.result.rows[Len(hist[c].got) + 1]>>
      ]_vars

(* An execute has just failed on a Cursor that stands inside a result set  *)
(* it had fetched from.                                                    *)
C22_Witness ==
    /\ ret.op = "execute" /\ ret.status \in {"InterfaceError", "ConnectionError"}
    /\ ~cursors[ret.cur].result.isNone
    /\ cursors[ret.cur].iterator.pos >= 1
    /\ cursors[ret.cur].iterator.pos < Len(cursors[ret.cur].result.rows)
    /\ hist[ret.cur].got = SubSeq(cursors[ret.cur].result.rows, 1,
                                  cursors[ret.cur].iterator.pos)

(* C23: draining a Cursor after an execute delivers as many rows as        *)
(* rowcount says: the fetchall after the execute returns that many, and    *)
(* fetchone calls after the execute return that many rows before the       *)
(* first None, whatever the rows are.                                      *)
C23_DrainDeliversAll ==
    \A c \in Live :
        LET h == hist[c]
        IN  /\ h.kind = "fetchall" => Len(h.outs[1]) = Rowcount(cursors[c])
            /\ h.kind = "fetchone" =>
                   \A k \in 1..Len(h.outs) :
                       ( /\ h.outs[k] = <<PyNone>>
                         /\ \A i \in 1..(k - 1) : h.outs[i] # <<PyNone>> )
                       => k - 1 = Rowcount(cursors[c])

(* C24: Connection.close leaves the result set, the position and the       *)
(* rowcount of every Cursor as they were, and a fetchone made on a Cursor  *)
(* after the close returns the row that follows the rows fetched so far.   *)
C24_ConnCloseKeepsRows ==
    /\ [][ ret'.op = "conn.close" =>
             \A c \in Live :
                 /\ cursors'[c].result = cursors[c].result
                 /\ cursors'[c].iterator = cursors[c].iterator
                 /\ Rowcount(cursors'[c]) = Rowcount(cursors[c]) ]_vars
    /\ [][ \A c \in Live :
             ( /\ ~api
               /\ hist[c].kind \notin {"none", "failed"}
               /\ cursors[c].iterator.pos = Len(hist[c].got)
               /\ Len(hist[c].got) < Len(Rows(c))
               /\ ret'.op = "fetchone" /\ ret'.cur = c )
             => /\ ret'.status = "ok"
                /\ ret'.rows = <<Rows(c)[Len(hist[c].got) + 1]>> ]_vars

(* On a closed Connection, a fetchone has just returned the last of the    *)
(* two or more rows of a result, all of them handed over in order.         *)
C24_Witness ==
    /\ ~api
    /\ ret.op = "fetchone" /\ ret.status = "ok"
    /\ Len(Rows(ret.cur)) >= 2
    /\ hist[ret.cur].got = Rows(ret.cur)
    /\ ret.rows = <<Rows(ret.cur)[Len(Rows(ret.cur))]>>
    /\ cursors[ret.cur].connection

====
